---------------------------- MODULE Spec2Model ----------------------------
(***************************************************************************)
(* Model of the chunk-spanning error-aggregation rules of                  *)
(* src/Docker/app/src/rules.py (ErrorsRule.check and the two concrete      *)
(* rules ErrorsPerTimeRule and ErrorsPerTimeAndAttributeRule), and of      *)
(* LogProcessor.process of src/Docker/app/src/processor.py, which gives    *)
(* the chunks of a file to the rules.                                      *)
(*                                                                         *)
(* A pandas Series is a finite sequence of entries [key, count, dtype];    *)
(* the key of the time rule is the tuple <<bucket>>, the key of the        *)
(* time+attribute rule is <<bucket, attribute>>, and dtype tells whether   *)
(* the values are int64 or float64.  A DataFrame is a sequence of rows     *)
(* [date, severity, bundle_id].  Timestamps are small naturals, the bucket *)
(* widths are scaled down accordingly; attribute values are numbered in    *)
(* their sort order.                                                       *)
(***************************************************************************)
EXTENDS Integers, Sequences, FiniteSets, TLC

VARIABLES
  threshold,  \* config.THRESHOLD, which every rule instance copies
  buffer,     \* buffer[r]: self.buffer of the instance of rule r
  last,       \* last[r]: the arguments, locals and result of the last check call
  seen,       \* seen[r][key]: the error rows given to r so far, per window key
  done,       \* done[r]: the entries finalized so far, over all check calls
  emitted,    \* emitted[r]: the alerts returned so far, over all check calls
  clock,      \* the largest timestamp of the rows given so far
  nChunks,    \* the number of non-empty chunks given so far
  nRows,      \* the number of rows given so far
  ordered,    \* whether the timestamps of the rows given so far never decreased
  rules,      \* LogProcessor.rules: the rule instances, in the order of the list
  pc,         \* where LogProcessor.process is
  pos,        \* the index in rules of the next rule __process_rule calls
  chunks,     \* the chunks the reader has yielded so far
  calls,      \* the check calls process has made so far: rule and batch
  logged      \* the number of logging.error records written by process

\* the variables of LogProcessor.process
driver == <<rules, pc, pos, chunks, calls, logged>>

vars ==
  <<threshold, buffer, last, seen, done, emitted, clock, nChunks, nRows, ordered,
    rules, pc, pos, chunks, calls, logged>>

-----------------------------------------------------------------------------
(* Bounds of the model *)

\* largest timestamp of a row
MaxTs == 5
\* largest number of rows of the whole stream (over all its chunks)
MaxRows == 3
\* number of distinct attribute (bundle_id) values
NumAttrs == 2
\* largest configured threshold
MaxThreshold == 2
\* width of a bucket of the time rule (config.TIME, scaled)
TIME == 2
\* width of a bucket of the time+attribute rule (config.TIME_ATTR, scaled)
TIME_ATTR == 3

-----------------------------------------------------------------------------
(* Configuration and data *)

ERROR_LEVEL == "Error"

Severities == {"Error", "Info"}

Attrs == 1..NumAttrs

RuleNames == {"errors_per_time", "errors_per_time_and_attribute"}

\* the rows of the stream; a row that is no error is dropped by check before
\* its attribute is read, so one attribute value is enough for those
Rows ==
  {row \in [date : 0..MaxTs, severity : Severities, bundle_id : Attrs] :
     row.severity = ERROR_LEVEL \/ row.bundle_id = 1}

\* pandas' NaT: what min()/max() of an empty index returns; it compares
\* unequal to, and not less than, everything
NaT == 0 - 1

TsEq(a, b) == a # NaT /\ b # NaT /\ a = b

TsLt(a, b) == a # NaT /\ b # NaT /\ a < b

\* pd.Grouper(freq=w): a timestamp is rounded down to its bucket start
Bucket(ts, w) == (ts \div w) * w

SetMin(S) == IF S = {} THEN NaT ELSE CHOOSE x \in S : \A y \in S : x <= y

SetMax(S) == IF S = {} THEN NaT ELSE CHOOSE x \in S : \A y \in S : x >= y

\* level 0 of an index entry: the bucket
Level0(key) == key[1]

Level0Values(s) == {Level0(s[i].key) : i \in DOMAIN s}

\* index.min() / index.max() over the bucket level
IndexMin(s) == SetMin(Level0Values(s))

IndexMax(s) == SetMax(Level0Values(s))

KeysOf(s) == {s[i].key : i \in DOMAIN s}

\* the count a Series holds for a key, 0 when the key is absent
\* (fill_value=0)
CountOf(s, k) ==
  IF \E i \in DOMAIN s : s[i].key = k
  THEN s[CHOOSE i \in DOMAIN s : s[i].key = k].count
  ELSE 0

\* lexicographic order of index keys
KeyLess(k1, k2) ==
  \/ k1[1] < k2[1]
  \/ k1[1] = k2[1] /\ Len(k1) = 2 /\ Len(k2) = 2 /\ k1[2] < k2[2]

RECURSIVE SortKeys(_)
SortKeys(S) ==
  IF S = {} THEN <<>>
  ELSE LET m == CHOOSE x \in S : \A y \in S \ {x} : KeyLess(x, y)
       IN  <<m>> \o SortKeys(S \ {m})

\* the values of a Series are int64 (what size() gives) or float64
IsFloat(s) == \E i \in DOMAIN s : s[i].dtype = "float64"

AsType(s, d) ==
  [i \in DOMAIN s |-> [key |-> s[i].key, count |-> s[i].count, dtype |-> d]]

\* pd.concat([a, b]): a after b, with the common dtype of the two
Concat(a, b) ==
  AsType(a \o b, IF IsFloat(a) \/ IsFloat(b) THEN "float64" ELSE "int64")

\* the dtype of counts.add(other, fill_value=0): aligning two indexes that
\* do not hold the same keys puts NaN for the missing ones, which makes the
\* values float64 before fill_value replaces the NaN
AddType(counts, other) ==
  IF IsFloat(counts) \/ IsFloat(other) \/ KeysOf(counts) # KeysOf(other)
  THEN "float64" ELSE "int64"

\* a merge that keeps the count of the chunk for a key of both sides instead
\* of adding the two counts (combine_first for add)
Mutant_SeriesAdd_first(counts, other) ==
  LET ks == SortKeys(KeysOf(counts) \cup KeysOf(other))
  IN  [i \in DOMAIN ks |->
         [key |-> ks[i],
          count |-> IF ks[i] \in KeysOf(counts)
                    THEN CountOf(counts, ks[i]) ELSE CountOf(other, ks[i]),
          dtype |-> AddType(counts, other)]]

\* the counts a Series holds for a key, in index order (an index may hold a
\* key more than once)
Occurrences(s, k) ==
  LET es == SelectSeq(s, LAMBDA e : e.key = k)
  IN  [i \in DOMAIN es |-> es[i].count]

\* the aligned sums for one key: every pair of an occurrence on the left
\* and one on the right, or the occurrences of the only side that has the
\* key (fill_value=0)
AlignedSums(l, r) ==
  IF l = <<>> THEN r
  ELSE IF r = <<>> THEN l
  ELSE [n \in 1..(Len(l) * Len(r)) |->
          l[((n - 1) \div Len(r)) + 1] + r[((n - 1) % Len(r)) + 1]]

RECURSIVE AddKeys(_, _, _)
AddKeys(ks, counts, other) ==
  IF ks = <<>> THEN <<>>
  ELSE LET sums == AlignedSums(Occurrences(counts, Head(ks)),
                               Occurrences(other, Head(ks)))
       IN  [i \in DOMAIN sums |->
              [key |-> Head(ks), count |-> sums[i], dtype |-> "int64"]]
           \o AddKeys(Tail(ks), counts, other)

\* Series.add(other, fill_value=0): the outer join of the two indexes in
\* ascending key order, each key with the sum of its two counts; a key that
\* one index holds m times and the other n times comes out m * n times
SeriesAdd(counts, other) ==
  AsType(AddKeys(SortKeys(KeysOf(counts) \cup KeysOf(other)), counts, other),
         AddType(counts, other))

-----------------------------------------------------------------------------
(* ErrorsPerTimeRule *)

\* error_df.groupby(pd.Grouper(key=date_col, freq=TIME)).size(): one entry
\* per bucket from the first to the last bucket of the rows, the buckets
\* without a row included with count 0; no entry for no rows
ErrorsPerTimeRule_group(error_df) ==
  IF error_df = <<>> THEN <<>>
  ELSE LET bs == {Bucket(error_df[j].date, TIME) : j \in DOMAIN error_df}
           lo == SetMin(bs)
           n  == (SetMax(bs) - lo) \div TIME + 1
       IN  [i \in 1..n |->
              [key   |-> <<lo + (i - 1) * TIME>>,
               count |-> Cardinality({j \in DOMAIN error_df :
                            Bucket(error_df[j].date, TIME) = lo + (i - 1) * TIME}),
               dtype |-> "int64"]]

\* a merge that puts the buffered window after the chunk's windows
Mutant_merged_append(buf, counts) ==
  IF buf # <<>>
  THEN LET buffer_ts == buf[1].key[1]
           first_ts  == IndexMin(counts)
       IN  IF TsEq(first_ts, buffer_ts)
           THEN SeriesAdd(counts, buf)
           ELSE Concat(counts, buf)
  ELSE counts

\* a merge that forgets the buffered window when the buckets differ
Mutant_merged_drop(buf, counts) ==
  IF buf # <<>>
  THEN LET buffer_ts == buf[1].key[1]
           first_ts  == IndexMin(counts)
       IN  IF TsEq(first_ts, buffer_ts)
           THEN SeriesAdd(counts, buf)
           ELSE counts
  ELSE counts

\* rules.py 92-99: the counts merged with the buffered window
ErrorsPerTimeRule_merged(buf, counts) ==
  IF buf # <<>>
  THEN LET buffer_ts == buf[1].key[1]
           first_ts  == IndexMin(counts)
       IN  IF TsEq(first_ts, buffer_ts)
           THEN SeriesAdd(counts, buf)
           ELSE Concat(buf, counts)
  ELSE counts

\* a split that buffers the first window and finalizes the later ones
\* (min for max)
Mutant_split_first(counts) ==
  LET first_ts == IndexMin(counts)
  IN  [buffer    |-> SelectSeq(counts, LAMBDA e : TsEq(e.key[1], first_ts)),
       finalized |-> SelectSeq(counts, LAMBDA e : TsLt(first_ts, e.key[1]))]

\* a split that finalizes the last window too (<= for <)
Mutant_split_le(counts) ==
  LET last_ts == IndexMax(counts)
  IN  [buffer    |-> SelectSeq(counts, LAMBDA e : TsEq(e.key[1], last_ts)),
       finalized |-> SelectSeq(counts, LAMBDA e : e.key[1] <= last_ts)]

\* rules.py 101-108: the last window goes to the buffer, the windows before
\* it are finalized
ErrorsPerTimeRule_split(counts) ==
  LET last_ts == IndexMax(counts)
  IN  [buffer    |-> SelectSeq(counts, LAMBDA e : TsEq(e.key[1], last_ts)),
       finalized |-> SelectSeq(counts, LAMBDA e : TsLt(e.key[1], last_ts))]

ErrorsPerTimeRule_merge_buffer(buf, counts) ==
  ErrorsPerTimeRule_split(ErrorsPerTimeRule_merged(buf, counts))

\* f"{count}": the digits of the count, of a float with its fraction
Format(count) ==
  IF count.dtype = "float64" THEN <<count.value, ".0">> ELSE <<count.value>>

ErrorsPerTimeRule_build_alert(key, count) ==
  [rule_name |-> "errors_per_time",
   message   |-> <<"Detected", Format(count), "fatal errors at", key[1]>>,
   timestamp |-> key[1]]

-----------------------------------------------------------------------------
(* ErrorsPerTimeAndAttributeRule *)

AttrKey(row) == <<Bucket(row.date, TIME_ATTR), row.bundle_id>>

\* error_df.groupby([pd.Grouper(key=date_col, freq=TIME_ATTR), attribute])
\* .size(): one entry per (bucket, attribute) pair that has a row, in
\* ascending order
ErrorsPerTimeAndAttributeRule_group(error_df) ==
  LET ks == SortKeys({AttrKey(error_df[j]) : j \in DOMAIN error_df})
  IN  [i \in DOMAIN ks |->
         [key   |-> ks[i],
          count |-> Cardinality({j \in DOMAIN error_df :
                       AttrKey(error_df[j]) = ks[i]}),
          dtype |-> "int64"]]

\* a merge that overwrites the buffered window with the chunk when the
\* buckets are the same
Mutant_attr_merged_overwrite(buf, counts) ==
  IF buf # <<>>
  THEN LET buffer_hour == Level0(buf[1].key)
           first_hour  == IndexMin(counts)
       IN  IF TsEq(buffer_hour, first_hour)
           THEN counts
           ELSE Concat(buf, counts)
  ELSE counts

\* a merge that looks at the buffer only when the chunk has counts
Mutant_merged_guard(buf, counts) ==
  IF buf # <<>> /\ counts # <<>>
  THEN LET buffer_hour == Level0(buf[1].key)
           first_hour  == IndexMin(counts)
       IN  IF TsEq(buffer_hour, first_hour)
           THEN SeriesAdd(counts, buf)
           ELSE Concat(buf, counts)
  ELSE counts

\* rules.py 134-141
ErrorsPerTimeAndAttributeRule_merged(buf, counts) ==
  IF buf # <<>>
  THEN LET buffer_hour == Level0(buf[1].key)
           first_hour  == IndexMin(counts)
       IN  IF TsEq(buffer_hour, first_hour)
           THEN SeriesAdd(counts, buf)
           ELSE Concat(buf, counts)
  ELSE counts

\* a split that buffers the window before the last one
Mutant_attr_split_stale(counts) ==
  LET last_hour == IndexMax(counts)
      prev_hour == SetMax(Level0Values(counts) \ {last_hour})
  IN  IF prev_hour = NaT
      THEN [buffer    |-> counts, finalized |-> <<>>]
      ELSE [buffer    |-> SelectSeq(counts, LAMBDA e : TsEq(Level0(e.key), prev_hour)),
            finalized |-> SelectSeq(counts, LAMBDA e : TsLt(Level0(e.key), prev_hour))]

\* a split that finalizes the last window and keeps it buffered (<= for <)
Mutant_attr_split_le(counts) ==
  LET last_hour == IndexMax(counts)
  IN  [buffer    |-> SelectSeq(counts, LAMBDA e : TsEq(Level0(e.key), last_hour)),
       finalized |-> SelectSeq(counts, LAMBDA e : Level0(e.key) <= last_hour)]

\* rules.py 143-152
ErrorsPerTimeAndAttributeRule_split(counts) ==
  LET last_hour == IndexMax(counts)
  IN  [buffer    |-> SelectSeq(counts, LAMBDA e : TsEq(Level0(e.key), last_hour)),
       finalized |-> SelectSeq(counts, LAMBDA e : TsLt(Level0(e.key), last_hour))]

ErrorsPerTimeAndAttributeRule_merge_buffer(buf, counts) ==
  ErrorsPerTimeAndAttributeRule_split(
    ErrorsPerTimeAndAttributeRule_merged(buf, counts))

ErrorsPerTimeAndAttributeRule_build_alert(key, count) ==
  [rule_name |-> "errors_per_time_and_attribute",
   message   |-> <<"Attribute", key[2], "has", Format(count), "errors at", key[1]>>,
   timestamp |-> key[1]]

-----------------------------------------------------------------------------
(* ErrorsRule: dispatch to the rule's implementation, and check *)

_group(r, error_df) ==
  IF r = "errors_per_time"
  THEN ErrorsPerTimeRule_group(error_df)
  ELSE ErrorsPerTimeAndAttributeRule_group(error_df)

_merge_buffer(r, buf, counts) ==
  IF r = "errors_per_time"
  THEN ErrorsPerTimeRule_merge_buffer(buf, counts)
  ELSE ErrorsPerTimeAndAttributeRule_merge_buffer(buf, counts)

_build_alert(r, key, count) ==
  IF r = "errors_per_time"
  THEN ErrorsPerTimeRule_build_alert(key, count)
  ELSE ErrorsPerTimeAndAttributeRule_build_alert(key, count)

\* df[df[error_col] == error_val]
ErrorRows(df) == SelectSeq(df, LAMBDA row : row.severity = ERROR_LEVEL)

\* a filter that lets a count equal to the threshold through (>= for >)
Mutant_Spikes_ge(finalized, th) == SelectSeq(finalized, LAMBDA e : e.count >= th)

\* rules.py 52-59: finalized[finalized > threshold], one alert per entry
Spikes(finalized, th) == SelectSeq(finalized, LAMBDA e : e.count > th)

BuildAlerts(r, finalized, th) ==
  LET spikes == Spikes(finalized, th)
  IN  [i \in DOMAIN spikes |->
         _build_alert(r, spikes[i].key,
                      [value |-> spikes[i].count, dtype |-> spikes[i].dtype])]

\* rules.py 49-59 with the buffer `buf` the instance holds at that point
Evaluate(r, buf, counts, th) ==
  LET m == _merge_buffer(r, buf, counts)
  IN  [buffer    |-> m.buffer,
       counts    |-> counts,
       finalized |-> m.finalized,
       alerts    |-> BuildAlerts(r, m.finalized, th),
       raised    |-> FALSE]

\* a check without the first branch (no batch and nothing buffered)
Mutant_check_no_shortcut(r, buf, th, df) ==
  IF df = <<>> /\ buf # <<>>
  THEN Evaluate(r, <<>>, buf, th)
  ELSE IF df = <<>>
  THEN [buffer |-> buf, counts |-> <<>>, finalized |-> <<>>,
        alerts |-> <<>>, raised |-> TRUE]
  ELSE Evaluate(r, buf, _group(r, ErrorRows(df)), th)

\* ErrorsRule.check(df) on an instance whose buffer is buf: the buffer the
\* instance is left with, the alerts returned, and the locals counts and
\* finalized.  df = <<>> is pd.DataFrame(), which has no column: selecting
\* the error column of it raises KeyError.
check(r, buf, th, df) ==
  IF df = <<>> /\ buf = <<>>
  THEN [buffer |-> buf, counts |-> <<>>, finalized |-> <<>>,
        alerts |-> <<>>, raised |-> FALSE]
  ELSE IF df = <<>> /\ buf # <<>>
  THEN Evaluate(r, <<>>, buf, th)
  ELSE IF df = <<>>
  THEN [buffer |-> buf, counts |-> <<>>, finalized |-> <<>>,
        alerts |-> <<>>, raised |-> TRUE]
  ELSE Evaluate(r, buf, _group(r, ErrorRows(df)), th)

-----------------------------------------------------------------------------
(* The stream: chunks of rows with non-decreasing timestamps *)

Sorted(df) == \A i \in 1..(Len(df) - 1) : df[i].date <= df[i + 1].date

\* the non-empty chunks of at most n rows, sorted by timestamp, that start
\* at or after timestamp c
ChunksFrom[c \in 0..MaxTs, n \in 0..MaxRows] ==
  {df \in UNION {[1..k -> Rows] : k \in 1..n} : Sorted(df) /\ df[1].date >= c}

\* the window key of a row under rule r
RowKey(r, row) ==
  IF r = "errors_per_time"
  THEN <<Bucket(row.date, TIME)>>
  ELSE <<Bucket(row.date, TIME_ATTR), row.bundle_id>>

RuleKeys(r) == {RowKey(r, row) : row \in Rows}

ErrorDates(df) == {df[i].date : i \in {j \in DOMAIN df : df[j].severity = ERROR_LEVEL}}

NoCall ==
  [called |-> FALSE, df_empty |-> TRUE, errors |-> 0, max_error |-> NaT,
   buf0 |-> <<>>, counts |-> <<>>, finalized |-> <<>>, alerts |-> <<>>,
   raised |-> FALSE]

\* a buffer that is an attribute of the class: every instance holds what the
\* last check call of any instance left
Mutant_Record_shared(r, df, res) ==
  /\ buffer' = [x \in DOMAIN buffer |-> res.buffer]
  /\ last' = [last EXCEPT ![r] =
        [called |-> TRUE, df_empty |-> (df = <<>>),
         errors |-> Len(ErrorRows(df)), max_error |-> SetMax(ErrorDates(df)),
         buf0 |-> buffer[r], counts |-> res.counts,
         finalized |-> res.finalized, alerts |-> res.alerts,
         raised |-> res.raised]]
  /\ seen' = [seen EXCEPT ![r] =
        [k \in RuleKeys(r) |->
           seen[r][k] + Cardinality({j \in DOMAIN df :
              df[j].severity = ERROR_LEVEL /\ RowKey(r, df[j]) = k})]]
  /\ done' = [done EXCEPT ![r] = done[r] \o res.finalized]
  /\ emitted' = [emitted EXCEPT ![r] = emitted[r] \o res.alerts]

\* what a check call on df leaves in the history variables
Record(r, df, res) ==
  /\ buffer' = [buffer EXCEPT ![r] = res.buffer]
  /\ last' = [last EXCEPT ![r] =
        [called |-> TRUE, df_empty |-> (df = <<>>),
         errors |-> Len(ErrorRows(df)), max_error |-> SetMax(ErrorDates(df)),
         buf0 |-> buffer[r], counts |-> res.counts,
         finalized |-> res.finalized, alerts |-> res.alerts,
         raised |-> res.raised]]
  /\ seen' = [seen EXCEPT ![r] =
        [k \in RuleKeys(r) |->
           seen[r][k] + Cardinality({j \in DOMAIN df :
              df[j].severity = ERROR_LEVEL /\ RowKey(r, df[j]) = k})]]
  /\ done' = [done EXCEPT ![r] = done[r] \o res.finalized]
  /\ emitted' = [emitted EXCEPT ![r] = emitted[r] \o res.alerts]

\* the rules of the list rs
Instances(rs) == {rs[i] : i \in DOMAIN rs}

\* the instances of the rules of rs, constructed and not yet called, in a
\* LogProcessor that is at position p
Constructed(rs, p) ==
  /\ buffer = [x \in Instances(rs) |-> <<>>]
  /\ last = [x \in Instances(rs) |-> NoCall]
  /\ seen = [x \in Instances(rs) |-> [k \in RuleKeys(x) |-> 0]]
  /\ done = [x \in Instances(rs) |-> <<>>]
  /\ emitted = [x \in Instances(rs) |-> <<>>]
  /\ clock = 0
  /\ nChunks = 0
  /\ nRows = 0
  /\ ordered = TRUE
  /\ rules = rs
  /\ pc = p
  /\ pos = 1
  /\ chunks = <<>>
  /\ calls = <<>>
  /\ logged = 0

\* one rule instance, called directly: process is not running
Init ==
  /\ threshold \in 0..MaxThreshold
  /\ \E r \in RuleNames : Constructed(<<r>>, "off")

\* rule.check(chunk) for the next chunk of the stream
CheckChunk(r) ==
  \E df \in ChunksFrom[clock, MaxRows - nRows] :
    /\ Record(r, df, check(r, buffer[r], threshold, df))
    /\ clock' = df[Len(df)].date
    /\ nChunks' = nChunks + 1
    /\ nRows' = nRows + Len(df)
    /\ UNCHANGED <<threshold, ordered>>
    /\ UNCHANGED driver

\* rule.check(pd.DataFrame()): the call made at the end of the stream
CheckEmpty(r) ==
  /\ Record(r, <<>>, check(r, buffer[r], threshold, <<>>))
  /\ UNCHANGED <<threshold, clock, nChunks, nRows, ordered>>
  /\ UNCHANGED driver

Next ==
  \/ \E r \in DOMAIN buffer : CheckChunk(r)
  \/ \E r \in DOMAIN buffer : CheckEmpty(r)

Spec == Init /\ [][Next]_vars

-----------------------------------------------------------------------------
(* A caller that does not keep the chunks in timestamp order: once in the   *)
(* stream a chunk may start before rows already given                      *)

\* config.CHUNK_SIZE, the number of rows pd.read_csv puts in a chunk, scaled
\* down from 500000
CHUNK_SIZE == 2

\* largest number of rows of such a stream
MaxRowsAny == MaxRows + 1

Smaller(a, b) == IF a <= b THEN a ELSE b

Larger(a, b) == IF a >= b THEN a ELSE b

\* the rules are constructed with the smallest threshold
InitAny == Init /\ threshold = 0

\* rule.check(chunk) for a chunk of at most CHUNK_SIZE rows that may start
\* before the rows already given, if no chunk did so before
CheckAnyChunk(r) ==
  \E df \in ChunksFrom[IF ordered THEN 0 ELSE clock,
                       Smaller(CHUNK_SIZE, Smaller(MaxRows, MaxRowsAny - nRows))] :
    /\ Record(r, df, check(r, buffer[r], threshold, df))
    /\ ordered' = (ordered /\ df[1].date >= clock)
    /\ clock' = Larger(clock, df[Len(df)].date)
    /\ nChunks' = nChunks + 1
    /\ nRows' = nRows + Len(df)
    /\ UNCHANGED threshold
    /\ UNCHANGED driver

NextAny ==
  \/ \E r \in DOMAIN buffer : CheckAnyChunk(r)
  \/ \E r \in DOMAIN buffer : CheckEmpty(r)

SpecAny == InitAny /\ [][NextAny]_vars

-----------------------------------------------------------------------------
(* LogProcessor.process: the file is read in chunks of CHUNK_SIZE rows,     *)
(* every chunk is given to every rule, then the empty batch is             *)

\* main.py: active_rules, and the same list in the other order
RuleLists ==
  {<<"errors_per_time", "errors_per_time_and_attribute">>,
   <<"errors_per_time_and_attribute", "errors_per_time">>}

\* largest number of rows of the file: a full chunk and a partial one
FileRows == CHUNK_SIZE + 1

InitProcess ==
  /\ threshold \in 0..MaxThreshold
  /\ \E rs \in RuleLists : Constructed(rs, "read")

\* a position that sends process back to the reader after the flush too
Mutant_AfterBatch_loop(p) == "read"

\* processor.py 54-59: after __process_rule(chunk) the loop asks the reader
\* for the next chunk; after __process_rule(pd.DataFrame()) process returns
AfterBatch(p) == IF p = "rules" THEN "read" ELSE "done"

\* the reader has more rows: a chunk of fewer than CHUNK_SIZE rows is the
\* last one of the file
MoreRows == IF chunks = <<>> THEN TRUE ELSE Len(chunks[Len(chunks)]) = CHUNK_SIZE

\* processor.py 54-55: the reader yields the next chunk
ReadChunk ==
  /\ pc = "read"
  /\ MoreRows
  /\ \E df \in ChunksFrom[clock, Smaller(CHUNK_SIZE, FileRows - nRows)] :
       /\ chunks' = Append(chunks, df)
       /\ clock' = df[Len(df)].date
       /\ nChunks' = nChunks + 1
       /\ nRows' = nRows + Len(df)
  /\ pc' = "rules"
  /\ pos' = 1
  /\ UNCHANGED <<threshold, buffer, last, seen, done, emitted, ordered,
                 rules, calls, logged>>

\* processor.py 54, 58-59: the reader is exhausted, the flush begins
EndOfFile ==
  /\ pc = "read"
  /\ pc' = "flush"
  /\ pos' = 1
  /\ UNCHANGED <<threshold, buffer, last, seen, done, emitted, clock, nChunks,
                 nRows, ordered, rules, chunks, calls, logged>>

\* processor.py 46-55, 61-64: opening the file, reading a chunk or
\* normalizing its dates raises; the except clause logs the error and
\* process returns
ReadRaises ==
  /\ pc = "read"
  /\ MoreRows
  /\ logged' = logged + 1
  /\ pc' = "done"
  /\ UNCHANGED <<threshold, buffer, last, seen, done, emitted, clock, nChunks,
                 nRows, ordered, rules, pos, chunks, calls>>

\* processor.py 129-132: rule.check(df) for the next rule of the list, df
\* being the chunk just read or, in the flush, pd.DataFrame(); an
\* exception of check ends process like one of the reader
CheckNext ==
  /\ pc \in {"rules", "flush"}
  /\ LET r   == rules[pos]
         df  == IF pc = "rules" THEN chunks[Len(chunks)] ELSE <<>>
         res == check(r, buffer[r], threshold, df)
     IN  IF res.raised
         THEN /\ logged' = logged + 1
              /\ pc' = "done"
              /\ UNCHANGED <<buffer, last, seen, done, emitted, pos, calls>>
         ELSE /\ Record(r, df, res)
              /\ calls' = Append(calls, [rule |-> r, df |-> df])
              /\ pos' = IF pos < Len(rules) THEN pos + 1 ELSE 1
              /\ pc' = IF pos < Len(rules) THEN pc ELSE AfterBatch(pc)
              /\ UNCHANGED logged
  /\ UNCHANGED <<threshold, clock, nChunks, nRows, ordered, rules, chunks>>

NextProcess == ReadChunk \/ EndOfFile \/ ReadRaises \/ CheckNext

SpecProcess == InitProcess /\ [][NextProcess]_vars

-----------------------------------------------------------------------------
(* Reading the history *)

Called(r) == last[r].called

\* the last call was check on a chunk with rows
ChunkCall(r) == last[r].called /\ ~last[r].df_empty

\* the last call was check on pd.DataFrame()
EmptyCall(r) == last[r].called /\ last[r].df_empty

\* the window an alert is about, and the count it reports
AlertKey(r, a) ==
  IF r = "errors_per_time" THEN <<a.timestamp>> ELSE <<a.timestamp, a.message[2]>>

AlertCount(r, a) ==
  IF r = "errors_per_time" THEN a.message[2][1] ELSE a.message[4][1]

AlertedKeys(r, alerts) == {AlertKey(r, alerts[j]) : j \in DOMAIN alerts}

Width(r) == IF r = "errors_per_time" THEN TIME ELSE TIME_ATTR

\* the keys of a Series with their counts as numbers
KeyCounts(s) == [i \in DOMAIN s |-> <<s[i].key, s[i].count>>]

-----------------------------------------------------------------------------
(* C1 *)

\* C1: Flush completeness.  When a check call with an empty batch returns,
\* every window whose total error count over the stream so far exceeds the
\* threshold has produced an alert.
FlushCompleteness ==
  \A r \in DOMAIN buffer :
    EmptyCall(r) =>
      \A k \in RuleKeys(r) :
        seen[r][k] > threshold => k \in AlertedKeys(r, emitted[r])

(* C2 *)

\* C2: Flush step.  A check call with an empty batch on a non-empty buffer
\* finalizes the whole buffer as it was before the call and leaves the
\* buffer empty.
FlushStep ==
  \A r \in DOMAIN buffer :
    (EmptyCall(r) /\ last[r].buf0 # <<>>) =>
      /\ last[r].finalized = last[r].buf0
      /\ buffer[r] = <<>>

(* C3 *)

\* C3: Hold-back.  In a check call on a chunk with at least one error row no
\* window of the largest bucket of the merged counts is finalized; a window
\* is finalized only by a call whose chunk has an error row in a strictly
\* later bucket, or by a call with an empty batch on a non-empty buffer.
HoldBack ==
  \A r \in DOMAIN buffer :
    /\ (ChunkCall(r) /\ last[r].errors > 0) =>
          LET largest == SetMax(Level0Values(last[r].buf0) \cup
                                Level0Values(last[r].counts))
          IN  /\ \A i \in DOMAIN last[r].finalized :
                   Level0(last[r].finalized[i].key) # largest
              /\ \A a \in AlertedKeys(r, last[r].alerts) : Level0(a) # largest
    /\ \A i \in DOMAIN last[r].finalized :
          \/ EmptyCall(r) /\ last[r].buf0 # <<>>
          \/ /\ ChunkCall(r)
             /\ last[r].errors > 0
             /\ Bucket(last[r].max_error, Width(r)) > Level0(last[r].finalized[i].key)

\* a chunk with error rows finalized some windows and held the last one back
HoldBackWitness ==
  \E r \in DOMAIN buffer :
    /\ ChunkCall(r)
    /\ last[r].errors > 0
    /\ last[r].finalized # <<>>
    /\ last[r].alerts # <<>>
    /\ buffer[r] # <<>>

(* C4 *)

\* C4: Threshold boundary.  In every check call an alert is built for a
\* finalized window exactly when its count is strictly greater than the
\* threshold, and every alert is for a finalized window and carries its
\* count.
ThresholdBoundary ==
  \A r \in DOMAIN buffer :
    Called(r) =>
      /\ \A i \in DOMAIN last[r].finalized :
            (last[r].finalized[i].key \in AlertedKeys(r, last[r].alerts))
              <=> (last[r].finalized[i].count > threshold)
      /\ \A j \in DOMAIN last[r].alerts :
            \E i \in DOMAIN last[r].finalized :
              /\ last[r].finalized[i].key = AlertKey(r, last[r].alerts[j])
              /\ last[r].finalized[i].count = AlertCount(r, last[r].alerts[j])

\* a window with error rows was finalized with a count equal to the
\* threshold, and the call returned no alert
ThresholdBoundaryWitness ==
  \E r \in DOMAIN buffer :
    /\ Called(r)
    /\ threshold > 0
    /\ \E i \in DOMAIN last[r].finalized : last[r].finalized[i].count = threshold
    /\ last[r].alerts = <<>>

(* C5 *)

\* the buffer before the call and the counts of the chunk are both non-empty
\* and the buffer's bucket is the earliest bucket of the counts
SameBucketCall(r) ==
  /\ ChunkCall(r)
  /\ last[r].buf0 # <<>>
  /\ last[r].counts # <<>>
  /\ Level0(last[r].buf0[1].key) = IndexMin(last[r].counts)

\* C5: Merge, same bucket.  When the buffer's bucket is the earliest bucket
\* of the chunk's counts, the merged counts (the finalized entries followed
\* by the new buffer) hold every key of either side once, with the sum of
\* its two counts; and every window finalized by any call is finalized with
\* the total number of its error rows over all chunks given so far.
MergeSameBucket ==
  \A r \in DOMAIN buffer :
    /\ SameBucketCall(r) =>
          LET merged == last[r].finalized \o buffer[r]
          IN  /\ KeysOf(merged) = KeysOf(last[r].buf0) \cup KeysOf(last[r].counts)
              /\ Len(merged) = Cardinality(KeysOf(merged))
              /\ \A i \in DOMAIN merged :
                    merged[i].count = CountOf(last[r].buf0, merged[i].key)
                                      + CountOf(last[r].counts, merged[i].key)
    /\ \A i \in DOMAIN last[r].finalized :
          last[r].finalized[i].count = seen[r][last[r].finalized[i].key]

\* a window whose error rows came in two chunks is finalized with their sum
\* and alerts, though neither part alone exceeds the threshold
MergeSameBucketWitness ==
  \E r \in DOMAIN buffer :
    /\ SameBucketCall(r)
    /\ \E i \in DOMAIN last[r].finalized :
         LET k == last[r].finalized[i].key
         IN  /\ CountOf(last[r].buf0, k) > 0
             /\ CountOf(last[r].counts, k) > 0
             /\ CountOf(last[r].buf0, k) <= threshold
             /\ CountOf(last[r].counts, k) <= threshold
             /\ k \in AlertedKeys(r, last[r].alerts)

(* C6 *)

\* the buffer before the call and the counts of the chunk are both non-empty
\* and the buffer's bucket is not the earliest bucket of the counts
DifferentBucketCall(r) ==
  /\ ChunkCall(r)
  /\ last[r].buf0 # <<>>
  /\ last[r].counts # <<>>
  /\ Level0(last[r].buf0[1].key) # IndexMin(last[r].counts)

\* C6: Merge, different bucket.  When the buffer's bucket differs from the
\* earliest bucket of the chunk's counts, the buffered windows are finalized
\* in that call with their buffered counts, and the chunk's windows keep
\* their counts: the finalized entries followed by the new buffer are the
\* old buffer followed by the chunk's counts.
MergeDifferentBucket ==
  \A r \in DOMAIN buffer :
    DifferentBucketCall(r) =>
      /\ \A i \in DOMAIN last[r].buf0 :
            /\ i \in DOMAIN last[r].finalized
            /\ last[r].finalized[i] = last[r].buf0[i]
      /\ KeyCounts(last[r].finalized \o buffer[r])
            = KeyCounts(last[r].buf0 \o last[r].counts)

\* a buffered window was finalized by a chunk that starts in a later bucket
MergeDifferentBucketWitness ==
  \E r \in DOMAIN buffer :
    /\ DifferentBucketCall(r)
    /\ last[r].finalized # <<>>
    /\ Level0(last[r].buf0[1].key) < IndexMin(last[r].counts)

(* C7 *)

\* the time+attribute rule with threshold 0 was given one chunk of two error
\* rows of one bucket with different attribute values, and then the empty
\* batch
ScenarioBDone(r, k1, k2) ==
  /\ r = "errors_per_time_and_attribute"
  /\ threshold = 0
  /\ nChunks = 1
  /\ nRows = 2
  /\ k1[1] = k2[1]
  /\ k1[2] < k2[2]
  /\ seen[r][k1] = 1
  /\ seen[r][k2] = 1
  /\ EmptyCall(r)

\* C7: Scenario B.  After the chunk and the flush exactly two alerts have
\* been returned in total, one for each (bucket, attribute) pair, each with
\* its own attribute value.
ScenarioB ==
  \A r \in DOMAIN buffer :
    \A k1, k2 \in RuleKeys(r) :
      ScenarioBDone(r, k1, k2) =>
        /\ Len(emitted[r]) = 2
        /\ AlertedKeys(r, emitted[r]) = {k1, k2}

(* C8 *)

\* the time rule with threshold 1 was given one chunk of three error rows,
\* two in bucket b and one in the next bucket, and then the empty batch
ScenarioADone(r, b) ==
  /\ r = "errors_per_time"
  /\ threshold = 1
  /\ nChunks = 1
  /\ nRows = 3
  /\ seen[r][<<b>>] = 2
  /\ seen[r][<<b + TIME>>] = 1
  /\ EmptyCall(r)

\* C8: Scenario A.  After the chunk and the flush both buckets have been
\* finalized, and exactly one alert has been returned in total, for bucket b
\* with count 2.
ScenarioA ==
  \A r \in DOMAIN buffer :
    \A b \in 0..(MaxTs - TIME) :
      (<<b>> \in RuleKeys(r) /\ <<b + TIME>> \in RuleKeys(r)
         /\ ScenarioADone(r, b)) =>
        /\ KeysOf(done[r]) = {<<b>>, <<b + TIME>>}
        /\ Len(emitted[r]) = 1
        /\ AlertKey(r, emitted[r][1]) = <<b>>
        /\ AlertCount(r, emitted[r][1]) = 2

(* C9 *)

\* C9: Empty no-op.  A check call with an empty batch on an empty buffer
\* returns no alerts, raises nothing and leaves the buffer empty.
EmptyNoOp ==
  \A r \in DOMAIN buffer :
    (EmptyCall(r) /\ last[r].buf0 = <<>>) =>
      /\ last[r].alerts = <<>>
      /\ ~last[r].raised
      /\ buffer[r] = <<>>

\* the empty batch was given to an instance whose buffer was empty, after a
\* chunk had been processed
EmptyNoOpWitness ==
  \E r \in DOMAIN buffer :
    /\ EmptyCall(r)
    /\ last[r].buf0 = <<>>
    /\ nChunks > 0

(* C10 *)

\* C10: Chunk without error rows.  A check call on a chunk with rows none of
\* which is an error returns no alerts, raises nothing and leaves the buffer
\* as it was.
NoErrorChunk ==
  \A r \in DOMAIN buffer :
    (ChunkCall(r) /\ last[r].errors = 0) =>
      /\ last[r].alerts = <<>>
      /\ ~last[r].raised
      /\ buffer[r] = last[r].buf0

\* a chunk without error rows was given to an instance with a non-empty
\* buffer
NoErrorChunkWitness ==
  \E r \in DOMAIN buffer :
    /\ ChunkCall(r)
    /\ last[r].errors = 0
    /\ last[r].buf0 # <<>>

(* C11 *)

\* C11: Alert order.  The alerts one check call returns are in ascending
\* window-key order: by bucket, and by attribute within a bucket.
AlertOrder ==
  \A r \in DOMAIN buffer :
    Called(r) =>
      \A i, j \in DOMAIN last[r].alerts :
        i < j => KeyLess(AlertKey(r, last[r].alerts[i]),
                         AlertKey(r, last[r].alerts[j]))

\* a call returned an alert for a buffered window followed by an alert for a
\* window of the chunk itself
AlertOrderWitness ==
  \E r \in DOMAIN buffer :
    /\ DifferentBucketCall(r)
    /\ Len(last[r].alerts) >= 2
    /\ AlertKey(r, last[r].alerts[1]) \in KeysOf(last[r].buf0)
    /\ AlertKey(r, last[r].alerts[2]) \in KeysOf(last[r].counts)

(* C14 *)

\* the buckets in which rule r has been given an error row so far
SeenBuckets(r) == {k[1] : k \in {x \in RuleKeys(r) : seen[r][x] > 0}}

\* C14: Pending buffer.  After every check call the buffer is empty, or all
\* its keys have one bucket, the largest bucket of an error row given so
\* far, each key is stored once with the number of error rows given so far
\* with that key, and the buffer of the time rule holds one entry.
PendingBuffer ==
  \A r \in DOMAIN buffer :
    \/ buffer[r] = <<>>
    \/ /\ Called(r)
       /\ Level0Values(buffer[r]) = {SetMax(SeenBuckets(r))}
       /\ Len(buffer[r]) = Cardinality(KeysOf(buffer[r]))
       /\ \A i \in DOMAIN buffer[r] :
             buffer[r][i].count = seen[r][buffer[r][i].key]
       /\ (r = "errors_per_time" => Len(buffer[r]) = 1)

\* the buffer holds two windows of the latest bucket after a second chunk,
\* an earlier bucket having been finalized
PendingBufferWitness ==
  \E r \in DOMAIN buffer :
    /\ Len(buffer[r]) = 2
    /\ nChunks >= 2
    /\ done[r] # <<>>

(* C18 *)

\* C18: No duplicate reporting.  Over the whole run no window key is
\* finalized twice and no window key is alerted twice.
NoDuplicateReporting ==
  \A r \in DOMAIN buffer :
    /\ Len(done[r]) = Cardinality(KeysOf(done[r]))
    /\ Len(emitted[r]) = Cardinality(AlertedKeys(r, emitted[r]))

\* windows were finalized by two different calls and two alerts returned
NoDuplicateReportingWitness ==
  \E r \in DOMAIN buffer :
    /\ Len(emitted[r]) >= 2
    /\ Len(last[r].finalized) < Len(done[r])
    /\ last[r].finalized # <<>>

(* C20 *)

\* C20: Monotone reporting.  Every window finalized by a check call on a
\* chunk with error rows has a bucket strictly smaller than the bucket the
\* buffer holds when the call returns, and the buckets of the alerts
\* returned over the calls never decrease.
MonotoneReporting ==
  \A r \in DOMAIN buffer :
    /\ (ChunkCall(r) /\ last[r].errors > 0) =>
          /\ buffer[r] # <<>>
          /\ \A i \in DOMAIN last[r].finalized :
                \A j \in DOMAIN buffer[r] :
                  Level0(last[r].finalized[i].key) < Level0(buffer[r][j].key)
    /\ \A i, j \in DOMAIN emitted[r] :
          i < j => emitted[r][i].timestamp <= emitted[r][j].timestamp

\* alerts of two different calls, the buffer holding a later bucket
MonotoneReportingWitness ==
  \E r \in DOMAIN buffer :
    /\ ChunkCall(r)
    /\ last[r].errors > 0
    /\ last[r].alerts # <<>>
    /\ Len(emitted[r]) > Len(last[r].alerts)

(* C17 *)

RECURSIVE SumCounts(_)
SumCounts(s) == IF s = <<>> THEN 0 ELSE Head(s).count + SumCounts(Tail(s))

RECURSIVE SumOver(_, _)
SumOver(f, S) ==
  IF S = {} THEN 0
  ELSE LET x == CHOOSE y \in S : TRUE IN f[x] + SumOver(f, S \ {x})

\* the counts finalized so far plus the counts pending are the error rows
\* given so far
Conserved(r) ==
  SumCounts(done[r]) + SumCounts(buffer[r]) = SumOver(seen[r], RuleKeys(r))

\* C17 as claimed: Conservation of counts, after any sequence of check calls
\* with any batches, ordered or not.
ConservationAnyOrder == \A r \in DOMAIN buffer : Conserved(r)

\* C17 as amended: Conservation of counts, after any sequence of check
\* calls with batches whose timestamps never decrease, empty ones included.
ConservationOrdered == \A r \in DOMAIN buffer : ordered => Conserved(r)

\* an ordered stream of several chunks with finalized and pending counts,
\* after a call with the empty batch
ConservationWitness ==
  \E r \in DOMAIN buffer :
    /\ ordered
    /\ nChunks >= 2
    /\ EmptyCall(r)
    /\ SumCounts(done[r]) >= 2
    /\ SumCounts(buffer[r]) >= 1

(* C19 *)

\* n rows with the error level in the window of key k
RECURSIVE Copies(_, _)
Copies(row, n) == IF n = 0 THEN <<>> ELSE <<row>> \o Copies(row, n - 1)

RECURSIVE RowsOfKeys(_, _)
RowsOfKeys(ks, f) ==
  IF ks = <<>> THEN <<>>
  ELSE LET k == Head(ks)
       IN  Copies([date |-> k[1], severity |-> ERROR_LEVEL,
                   bundle_id |-> IF Len(k) = 2 THEN k[2] ELSE 1], f[k])
           \o RowsOfKeys(Tail(ks), f)

\* the error rows rule r has been given so far as one chunk, in timestamp
\* order, every row at the start of its bucket (check drops the other rows
\* and _group reads nothing but the bucket and the attribute of a row)
WholeStream(r) == RowsOfKeys(SortKeys(RuleKeys(r)), seen[r])

\* the alerts of a fresh instance of rule r that is given the whole stream
\* as one chunk and then the empty batch
OneChunkAlerts(r) ==
  LET first == check(r, <<>>, threshold, WholeStream(r))
      flush == check(r, first.buffer, threshold, <<>>)
  IN  first.alerts \o flush.alerts

\* C19: Chunking independence.  For a stream with non-decreasing timestamps
\* the alerts emitted over all chunks and the final flush are, whatever the
\* split into chunks, the alerts of processing the whole stream as one chunk
\* followed by the flush.
ChunkingIndependence ==
  \A r \in DOMAIN buffer :
    (EmptyCall(r) /\ nChunks >= 1) => emitted[r] = OneChunkAlerts(r)

(* C12 *)

\* the batches process has given to rule r so far, in call order
Given(r) ==
  LET mine == SelectSeq(calls, LAMBDA c : c.rule = r)
  IN  [i \in DOMAIN mine |-> mine[i].df]

\* the buffer and the alerts of an instance of rule r that starts with
\* buffer buf and alerts `alerts` and is given the batches dfs, alone
RECURSIVE Replay(_, _, _, _)
Replay(r, dfs, buf, alerts) ==
  IF dfs = <<>> THEN [buffer |-> buf, alerts |-> alerts]
  ELSE LET res == check(r, buf, threshold, Head(dfs))
       IN  Replay(r, Tail(dfs), res.buffer, alerts \o res.alerts)

\* the chunks read so far followed by the batch of the flush
Batches == Append(chunks, <<>>)

\* C12: Rule independence.  In LogProcessor.process, with the two rules in
\* either order, every rule is given the batches as they were read (a check
\* call of another rule has not changed them), and the buffer and the
\* alerts of a rule are those of an instance that is given its batches
\* alone.
RuleIndependence ==
  \A r \in DOMAIN buffer :
    /\ Len(Given(r)) <= Len(Batches)
    /\ \A i \in DOMAIN Given(r) : Given(r)[i] = Batches[i]
    /\ buffer[r] = Replay(r, Given(r), <<>>, <<>>).buffer
    /\ emitted[r] = Replay(r, Given(r), <<>>, <<>>).alerts

\* both rules have alerted and hold a pending window after two chunks
RuleIndependenceWitness ==
  /\ pc = "read"
  /\ Len(chunks) = 2
  /\ \A r \in DOMAIN buffer : emitted[r] # <<>> /\ buffer[r] # <<>>
  /\ buffer[rules[1]] # buffer[rules[2]]

(* C13 *)

\* the values config.THRESHOLD can be given: the dataclass takes any int
ConfigThresholds == (0 - MaxThreshold)..MaxThreshold

\* rules.py 15-23: the constructor copies the configuration as it is
InitConfig ==
  /\ threshold \in ConfigThresholds
  /\ \E r \in RuleNames : Constructed(<<r>>, "off")

SpecConfig == InitConfig /\ [][Next]_vars

\* C13: Configuration errors.  No rule instance with a negative threshold
\* ever processes a batch.
ConfigurationErrors ==
  \A r \in DOMAIN buffer : threshold < 0 => ~Called(r)

(* C15 *)

\* the number of check calls process makes for one batch
PerBatch == Len(rules)

\* C15: Driver protocol.  The i-th check call of process is on the rule at
\* position ((i - 1) mod n) + 1 of the list with the chunk number
\* ((i - 1) div n) + 1, or with the empty batch once all chunks were given;
\* a chunk is read only when every rule has seen the one before, and when
\* process has returned without an error every rule has been called once
\* per chunk and once with the empty batch, and no more.
DriverProtocol ==
  /\ \A i \in DOMAIN calls :
        /\ calls[i].rule = rules[((i - 1) % PerBatch) + 1]
        /\ calls[i].df = Batches[((i - 1) \div PerBatch) + 1]
  /\ pc = "read" => Len(calls) = Len(chunks) * PerBatch
  /\ pc = "rules" => Len(calls) = (Len(chunks) - 1) * PerBatch + (pos - 1)
  /\ pc = "flush" => Len(calls) = Len(chunks) * PerBatch + (pos - 1)
  /\ (pc = "done" /\ logged = 0) => Len(calls) = (Len(chunks) + 1) * PerBatch

\* process has returned after two chunks and the flush
DriverProtocolWitness ==
  /\ pc = "done"
  /\ logged = 0
  /\ Len(chunks) = 2
  /\ Len(calls) = 3 * PerBatch

(* C16 *)

\* the flush has been performed: every rule was called with the empty batch
Flushed ==
  \A r \in DOMAIN buffer : \E i \in DOMAIN calls :
    calls[i].rule = r /\ calls[i].df = <<>>

\* C16: Failure recovery.  When process has returned after an error was
\* logged, the end-of-stream flush has been performed on every rule.
FailureRecovery == (pc = "done" /\ logged > 0) => Flushed

=============================================================================
